---- MODULE Spec2Model ----
(***************************************************************************)
(* Model of src/main.py: the paginated download of the Steam leaderboard   *)
(* into ./cache/xml/, the assembly of the cached pages into one data frame *)
(* cached in ./cache/df.pkl, and the binning of the scores done by         *)
(* rivals2_plot and rivals2_line_plot.                                     *)
(*                                                                         *)
(* Spec    is the ingestion/assembly pipeline (lines 18-73).               *)
(* BinSpec is the bin computation (lines 82-111, 133, 169-194, 212),       *)
(*         applied to data frames drawn from a bounded set of scores.      *)
(***************************************************************************)
EXTENDS Integers, Sequences, FiniteSets, TLC

VARIABLES
    server,        \* the page chain the remote API serves (environment)
    xmlCache,      \* files of XML_CACHE: key <<start, end>> -> raw document
    dfCache,       \* DF_CACHE: [exists, data]
    pc,            \* position of the running call: idle / download / assemble
    entry,         \* the function the running (or last) call entered by
    next_url,      \* download_xml's local next_url
    result,        \* "none", "running", "ok", or the exception that ended the call
    returned,      \* the data frame the last call returned
    log,           \* requests, file writes, listings and reads of the call
    cacheAtStart,  \* xmlCache when the call started
    dfAtStart,     \* dfCache when the call started
    combined_df,   \* the scores handed to rivals2_plot / rivals2_line_plot
    plotOut,       \* what rivals2_plot computed
    lineOut        \* what rivals2_line_plot computed

vars == <<server, xmlCache, dfCache, pc, entry, next_url, result, returned, log,
          cacheAtStart, dfAtStart, combined_df, plotOut, lineOut>>

pipeVars == <<server, xmlCache, dfCache, pc, entry, next_url, result, returned, log,
              cacheAtStart, dfAtStart>>

binVars == <<combined_df, plotOut, lineOut>>

(***************************************************************************)
(* Bounds of the model.                                                    *)
(***************************************************************************)
MaxPages == 3

MaxPerPage == 2

MaxEntries == 3

(***************************************************************************)
(* The remote API.  Page i of a chain covers the ranks                     *)
(* (i-1)*MaxPerPage+1 .. i*MaxPerPage and carries between 0 and MaxPerPage *)
(* entries.  Every page but the last carries the URL of the next one; the  *)
(* last page's nextRequestURL element is absent, present without text      *)
(* ("empty"), or present with whitespace text ("blank").                   *)
(***************************************************************************)
NoneUrl == [kind |-> "None", page |-> 0]

EmptyStrUrl == [kind |-> "str", page |-> 0]

PageUrl(k) == [kind |-> "str", page |-> k]

InitialUrl == PageUrl(1)

EntryOf(r) == [rank |-> r, score |-> 100 * r]

PageEntries(i, cnt) == [j \in 1..cnt |-> EntryOf((i - 1) * MaxPerPage + j)]

PageDoc(i, cnt, nextField) ==
    [entryStart |-> (i - 1) * MaxPerPage + 1,
     entryEnd |-> i * MaxPerPage,
     entries |-> PageEntries(i, cnt),
     nextRequestURL |-> nextField]

LastFields == {[kind |-> "absent", page |-> 0], [kind |-> "empty", page |-> 0],
               [kind |-> "blank", page |-> 0]}

Chains ==
    UNION {{[i \in 1..n |->
                PageDoc(i, cnts[i],
                        IF i < n THEN [kind |-> "url", page |-> i + 1] ELSE last)] :
              cnts \in [1..n -> 0..MaxPerPage], last \in LastFields} :
           n \in 1..MaxPages}

(***************************************************************************)
(* One requests.get(next_url): an exception, or a response with a status   *)
(* and a body.  The body is the page document or something that is not a   *)
(* leaderboard page; the status is independent of the body.                *)
(***************************************************************************)
Responses(url) ==
    IF url.page = 0
    THEN {[raised |-> "MissingSchema", status |-> "none", body |-> "none"]}
    ELSE {[raised |-> "ConnectionError", status |-> "none", body |-> "none"]}
         \cup {[raised |-> "none", status |-> s, body |-> b] :
                 s \in {"ok", "bad_status"}, b \in {"page", "malformed"}}

GetOutcome(resp) == IF resp.raised # "none" THEN "exception" ELSE resp.status

FileKey(xml) == <<xml.entryStart, xml.entryEnd>>

WriteFile(cache, xml) == (FileKey(xml) :> xml) @@ cache

(* A download that stops after its first page. *)
ParseNextStop(xml) == [raised |-> "none", url |-> NoneUrl]

(* line 35: the element's stripped text, None when the element is absent;  *)
(* an element without text has text None, and None.strip() raises.         *)
ParseNext(xml) ==
    LET f == xml.nextRequestURL IN
    CASE f.kind = "absent" -> [raised |-> "none", url |-> NoneUrl]
      [] f.kind = "empty" -> [raised |-> "AttributeError", url |-> NoneUrl]
      [] f.kind = "blank" -> [raised |-> "none", url |-> EmptyStrUrl]
      [] OTHER -> [raised |-> "none", url |-> PageUrl(f.page)]

(* A gate that downloads whatever the cache holds. *)
IsColdAlways(cache) == TRUE

IsCold(cache) == DOMAIN cache = {}

(* A lookup that never finds df.pkl. *)
HasDatasetNever(df) == FALSE

HasDataset(df) == df.exists

ReadPickle(df) == df.data

Event(op, page, outcome) == [op |-> op, page |-> page, outcome |-> outcome]

NoDf == [exists |-> FALSE, data |-> <<>>]

EmptyCache == <<>>

NoOut == [applied |-> FALSE]

Init ==
    /\ server \in Chains
    /\ xmlCache = EmptyCache
    /\ dfCache = NoDf
    /\ pc = "idle"
    /\ entry = "none"
    /\ next_url = NoneUrl
    /\ result = "none"
    /\ returned = <<>>
    /\ log = <<>>
    /\ cacheAtStart = EmptyCache
    /\ dfAtStart = NoDf
    /\ combined_df = <<>>
    /\ plotOut = NoOut
    /\ lineOut = NoOut

(* get_leaderboard_xml, lines 42-44, entered from `from`.                  *)
EnterGetLeaderboardXml(from) ==
    /\ log' = <<Event("listdir", 0, "ok")>>
    /\ IF IsCold(xmlCache)
       THEN /\ pc' = "download"
            /\ next_url' = InitialUrl
            /\ result' = "running"
       ELSE /\ next_url' = NoneUrl
            /\ IF from = "get_leaderboard_xml"
               THEN pc' = "idle" /\ result' = "ok"
               ELSE pc' = "assemble" /\ result' = "running"

(* A call of get_leaderboard_xml(). *)
CallGetLeaderboardXml ==
    /\ pc = "idle"
    /\ entry' = "get_leaderboard_xml"
    /\ cacheAtStart' = xmlCache
    /\ dfAtStart' = dfCache
    /\ returned' = <<>>
    /\ EnterGetLeaderboardXml("get_leaderboard_xml")
    /\ UNCHANGED <<server, xmlCache, dfCache, binVars>>

(* A call of get_leaderboard_df(), lines 67-70. *)
CallGetLeaderboardDf ==
    /\ pc = "idle"
    /\ entry' = "get_leaderboard_df"
    /\ cacheAtStart' = xmlCache
    /\ dfAtStart' = dfCache
    /\ IF HasDataset(dfCache)
       THEN /\ returned' = ReadPickle(dfCache)
            /\ result' = "ok"
            /\ log' = <<>>
            /\ UNCHANGED <<pc, next_url>>
       ELSE /\ returned' = <<>>
            /\ EnterGetLeaderboardXml("get_leaderboard_df")
    /\ UNCHANGED <<server, xmlCache, dfCache, binVars>>

(* The call ends by exception `exc`. *)
Raise(exc) ==
    /\ pc' = "idle"
    /\ result' = exc
    /\ next_url' = NoneUrl

(* download_xml returns to get_leaderboard_xml, which returns to its caller. *)
DownloadReturns ==
    /\ next_url' = NoneUrl
    /\ IF entry = "get_leaderboard_xml"
       THEN pc' = "idle" /\ result' = "ok"
       ELSE pc' = "assemble" /\ result' = "running"

(* One iteration of the loop of download_xml, lines 24-35. *)
DownloadStep ==
    /\ pc = "download"
    /\ \E resp \in Responses(next_url) :
         LET got == Append(log, Event("get", next_url.page, GetOutcome(resp))) IN
         IF resp.raised # "none"
         THEN Raise(resp.raised) /\ log' = got /\ UNCHANGED xmlCache
         ELSE IF resp.body = "malformed"
         THEN Raise("ParseError") /\ log' = got /\ UNCHANGED xmlCache
         ELSE LET xml == server[next_url.page]
                  nxt == ParseNext(xml)
              IN /\ xmlCache' = WriteFile(xmlCache, xml)
                 /\ log' = Append(got, Event("write", next_url.page, "ok"))
                 /\ IF nxt.raised # "none"
                    THEN Raise(nxt.raised)
                    ELSE IF nxt.url = NoneUrl
                    THEN DownloadReturns
                    ELSE /\ next_url' = nxt.url
                         /\ UNCHANGED <<pc, result>>
    /\ UNCHANGED <<server, dfCache, entry, returned, cacheAtStart, dfAtStart, binVars>>

(* os.listdir(XML_CACHE): the file names, in an order the file system picks. *)
Orders(S) ==
    {o \in [1..Cardinality(S) -> S] : \A i, j \in 1..Cardinality(S) : o[i] = o[j] => i = j}

ListDir(cache) == Orders(DOMAIN cache)

(* pd.read_xml(file_path, xpath='.//entry'), line 56: the rows of the      *)
(* document's entry elements; raises ValueError when the xpath finds none. *)
ReadXml(xml) ==
    [raised |-> IF Len(xml.entries) = 0 THEN "ValueError" ELSE "none",
     df |-> xml.entries]

RECURSIVE Flatten(_)
Flatten(dfs) == IF dfs = <<>> THEN <<>> ELSE Head(dfs) \o Flatten(Tail(dfs))

(* A concatenation that keeps the first frame only. *)
ConcatFirstOnly(all_dfs) ==
    [raised |-> IF Len(all_dfs) = 0 THEN "ValueError" ELSE "none",
     df |-> IF Len(all_dfs) = 0 THEN <<>> ELSE Head(all_dfs)]

(* pd.concat(all_dfs, ignore_index=True), line 59: the frames' rows in     *)
(* list order; raises ValueError on an empty list.                         *)
Concat(all_dfs) ==
    [raised |-> IF Len(all_dfs) = 0 THEN "ValueError" ELSE "none",
     df |-> Flatten(all_dfs)]

PageOf(xml) == xml.entryEnd \div MaxPerPage

(* The body of xml_to_df after get_leaderboard_xml(), lines 53-59, under   *)
(* the listing `order`: the reads done, and the frame or the exception.    *)
XmlToDf(cache, order) ==
    LET reads == [i \in 1..Len(order) |-> ReadXml(cache[order[i]])]
        bad == {i \in 1..Len(order) : reads[i].raised # "none"}
        firstBad == IF bad = {} THEN 0 ELSE CHOOSE i \in bad : \A j \in bad : i <= j
        done == IF firstBad = 0 THEN Len(order) ELSE firstBad
        events == [i \in 1..done |->
                     Event("read_xml", PageOf(cache[order[i]]),
                           IF i = firstBad THEN "exception" ELSE "ok")]
        cat == Concat([i \in 1..Len(order) |-> reads[i].df])
    IN  [raised |-> IF firstBad # 0 THEN reads[firstBad].raised ELSE cat.raised,
         df |-> cat.df,
         events |-> <<Event("listdir", 0, "ok")>> \o events]

ToPickle(df) == [exists |-> TRUE, data |-> df]

(* xml_to_df lines 53-59, then get_leaderboard_df lines 70-73. *)
Assemble ==
    /\ pc = "assemble"
    /\ \E order \in ListDir(xmlCache) :
         LET r == XmlToDf(xmlCache, order) IN
         /\ log' = log \o r.events
         /\ IF r.raised # "none"
            THEN Raise(r.raised) /\ UNCHANGED <<dfCache, returned>>
            ELSE /\ dfCache' = ToPickle(r.df)
                 /\ returned' = r.df
                 /\ pc' = "idle"
                 /\ result' = "ok"
                 /\ next_url' = NoneUrl
    /\ UNCHANGED <<server, xmlCache, entry, cacheAtStart, dfAtStart, binVars>>

Next == CallGetLeaderboardXml \/ CallGetLeaderboardDf \/ DownloadStep \/ Assemble

Spec == Init /\ [][Next]_vars

(***************************************************************************)
(* The bin computation.  Floating-point values are exact fractions         *)
(* num/den, or NaN; a comparison with NaN is false, as in IEEE 754.        *)
(***************************************************************************)
NaN == [nan |-> TRUE, num |-> 0, den |-> 1]

Num(n) == [nan |-> FALSE, num |-> n, den |-> 1]

FAdd(x, y) ==
    IF x.nan \/ y.nan THEN NaN
    ELSE [nan |-> FALSE, num |-> x.num * y.den + y.num * x.den, den |-> x.den * y.den]

FMul(x, y) ==
    IF x.nan \/ y.nan THEN NaN
    ELSE [nan |-> FALSE, num |-> x.num * y.num, den |-> x.den * y.den]

(* x / y for the integer counts x >= 0, y >= 0 of the program: 0/0 is NaN  *)
(* (numpy warns and goes on); y = 0 < x does not occur, the total being    *)
(* the sum of the counts.                                                  *)
FDiv(x, y) == IF y = 0 THEN NaN ELSE [nan |-> FALSE, num |-> x, den |-> y]

FEq(x, y) == ~x.nan /\ ~y.nan /\ x.num * y.den = y.num * x.den

FLt(x, y) == ~x.nan /\ ~y.nan /\ x.num * y.den < y.num * x.den

FLeq(x, y) == ~x.nan /\ ~y.nan /\ x.num * y.den <= y.num * x.den

(* combined_df['score'].max() + 1: NaN for the empty frame. *)
SeriesMax(df) ==
    IF Len(df) = 0 THEN NaN
    ELSE Num(CHOOSE m \in {df[i] : i \in 1..Len(df)} : \A i \in 1..Len(df) : df[i] <= m)

PlotEdges(df) ==
    <<Num(0), Num(400), Num(500), Num(600), Num(700), Num(800), Num(900),
      Num(1000), Num(1100), Num(1200), Num(1300), Num(1400), Num(1500),
      FAdd(SeriesMax(df), Num(1))>>

PlotLabels ==
    <<"Stone 0-399", "Stone 400-499", "Bronze 500-599", "Bronze 600-699",
      "Silver 700-799", "Silver 800-899", "Gold 900-999", "Gold 1000-1099",
      "Plat 1100-1199", "Plat 1200-1299", "Diamond 1300-1399", "Diamond 1400-1499",
      "Master 1500+">>

LineEdges(df) ==
    <<Num(0), Num(500), Num(700), Num(900), Num(1100), Num(1300), Num(1500),
      FAdd(SeriesMax(df), Num(1))>>

LineLabels == <<"Stone", "Bronze", "Silver", "Gold", "Platinum", "Diamond", "Master">>

(* The versions of pandas differ on a NaN bin edge: pd.cut either raises   *)
(* "bins must increase monotonically" (the edges are tested with           *)
(* Index.is_monotonic_increasing) or lets it pass (np.diff(bins) < 0).     *)
PandasBuilds == {"nan_edge_raises", "nan_edge_passes"}

(* pd.cut(x, bins=bins, labels=labels, right=False): per value the index   *)
(* of the label of the interval [bins[j], bins[j+1]) holding it, 0 (NaN)   *)
(* when none does; ValueError when the edges decrease or repeat.           *)
Cut(x, bins, labels, build) ==
    LET n == Len(bins)
        hasNaN == \E j \in 1..n : bins[j].nan
        decreasing == \E j \in 1..(n - 1) : FLt(bins[j + 1], bins[j])
        repeated == \E j, k \in 1..n : j < k /\ FEq(bins[j], bins[k])
        In(v, j) == FLeq(bins[j], Num(v)) /\ FLt(Num(v), bins[j + 1])
    IN  [raised |-> IF \/ (hasNaN /\ build = "nan_edge_raises")
                       \/ decreasing
                       \/ repeated
                       \/ Len(labels) # n - 1
                    THEN "ValueError" ELSE "none",
         codes |-> [i \in 1..Len(x) |->
                      IF \E j \in 1..(n - 1) : In(x[i], j)
                      THEN CHOOSE j \in 1..(n - 1) :
                             In(x[i], j) /\ \A k \in 1..(j - 1) : ~In(x[i], k)
                      ELSE 0]]

(* ranked_bins.value_counts().reindex(bin_labels): the count per label, in *)
(* label order; NaN codes are not counted.                                 *)
RankCounts(codes, labels) ==
    [j \in 1..Len(labels) |-> Cardinality({i \in 1..Len(codes) : codes[i] = j})]

RECURSIVE SeqSum(_)
SeqSum(s) == IF s = <<>> THEN 0 ELSE Head(s) + SeqSum(Tail(s))

(* rank_counts[::-1].cumsum()[::-1]: at j, the sum of the counts from j on. *)
ReverseCumsum(counts) ==
    [j \in 1..Len(counts) |-> SeqSum(SubSeq(counts, j, Len(counts)))]

(* line 133 *)
PlotPercentage(height, total_players) ==
    IF total_players # 0 THEN FMul(FDiv(height, total_players), Num(100)) ELSE Num(0)

(* line 212 *)
LinePercentage(count, total_players) == FMul(FDiv(count, total_players), Num(100))

(* line 194 *)
CumulativeTopPercentage(rank_counts, total_players) ==
    LET rc == ReverseCumsum(rank_counts) IN
    [j \in 1..Len(rank_counts) |-> FMul(FDiv(rc[j], total_players), Num(100))]

Out(raised, at, edges, counts, total, pct, cum) ==
    [applied |-> TRUE, raised |-> raised, at |-> at, bin_edges |-> edges,
     rank_counts |-> counts, total_players |-> total, percentage |-> pct,
     cumulative_top_percentage |-> cum]

(* rivals2_plot, lines 82-133: what it computes, and the exception that    *)
(* ends it (with the line that raises).  The rendering is left out.        *)
Rivals2Plot(df, build) ==
    LET bin_edges == PlotEdges(df)
        ranked_bins == Cut(df, bin_edges, PlotLabels, build)
        rank_counts == RankCounts(ranked_bins.codes, PlotLabels)
        total_players == SeqSum(rank_counts)
    IN  IF ranked_bins.raised # "none"
        THEN Out(ranked_bins.raised, 107, bin_edges, <<>>, 0, <<>>, <<>>)
        ELSE Out("none", 0, bin_edges, rank_counts, total_players,
                 [j \in 1..Len(rank_counts) |->
                    PlotPercentage(rank_counts[j], total_players)],
                 <<>>)

(* rivals2_line_plot, lines 169-217.  On the empty frame max(y), line 217, *)
(* raises ValueError after the statistics of the first division are        *)
(* formatted.                                                              *)
Rivals2LinePlot(df, build) ==
    LET bin_edges == LineEdges(df)
        ranked_bins == Cut(df, bin_edges, LineLabels, build)
        rank_counts == RankCounts(ranked_bins.codes, LineLabels)
        total_players == SeqSum(rank_counts)
        cumulative_top_percentage == CumulativeTopPercentage(rank_counts, total_players)
        percentage == [j \in 1..Len(rank_counts) |->
                         LinePercentage(rank_counts[j], total_players)]
    IN  IF ranked_bins.raised # "none"
        THEN Out(ranked_bins.raised, 187, bin_edges, <<>>, 0, <<>>, <<>>)
        ELSE Out(IF Len(df) = 0 THEN "ValueError" ELSE "none",
                 IF Len(df) = 0 THEN 217 ELSE 0,
                 bin_edges, rank_counts, total_players, percentage,
                 cumulative_top_percentage)

ScoreSamples == {0, 399, 400, 1499, 1500, 1501}

Frames == UNION {[1..n -> ScoreSamples] : n \in 0..MaxEntries}

BinInit ==
    /\ server = <<>>
    /\ xmlCache = EmptyCache
    /\ dfCache = NoDf
    /\ pc = "idle"
    /\ entry = "none"
    /\ next_url = NoneUrl
    /\ result = "none"
    /\ returned = <<>>
    /\ log = <<>>
    /\ cacheAtStart = EmptyCache
    /\ dfAtStart = NoDf
    /\ combined_df \in Frames
    /\ plotOut = NoOut
    /\ lineOut = NoOut

CallRivals2Plot ==
    /\ \E build \in PandasBuilds : plotOut' = Rivals2Plot(combined_df, build)
    /\ UNCHANGED <<pipeVars, combined_df, lineOut>>

CallRivals2LinePlot ==
    /\ \E build \in PandasBuilds : lineOut' = Rivals2LinePlot(combined_df, build)
    /\ UNCHANGED <<pipeVars, combined_df, plotOut>>

BinNext == CallRivals2Plot \/ CallRivals2LinePlot

BinSpec == BinInit /\ [][BinNext]_vars
(***************************************************************************)
(* Properties of the pipeline (Spec).                                      *)
(***************************************************************************)
IsNet(e) == e.op \in {"get", "write"}

NetLog == SelectSeq(log, IsNet)

IsGet(e) == e.op = "get"

Gets == SelectSeq(log, IsGet)

WasCold == DOMAIN cacheAtStart = {}

(* The cache holding exactly the first k pages of the server's chain. *)
PagesUpTo(k) ==
    [key \in {FileKey(server[i]) : i \in 1..k} |->
        server[CHOOSE i \in 1..k : FileKey(server[i]) = key]]

(* The requests and writes of a download of n pages without failure. *)
ExpectedNetLog(n) ==
    [j \in 1..(2 * n) |->
        IF j % 2 = 1 THEN Event("get", (j + 1) \div 2, "ok")
        ELSE Event("write", j \div 2, "ok")]

IsPrefix(s, t) == Len(s) <= Len(t) /\ SubSeq(t, 1, Len(s)) = s

Count(seq, e) == Cardinality({i \in 1..Len(seq) : seq[i] = e})

RECURSIVE CountInFiles(_, _, _)
CountInFiles(cache, keys, e) ==
    IF keys = {} THEN 0
    ELSE LET k == CHOOSE x \in keys : TRUE
         IN  Count(cache[k].entries, e) + CountInFiles(cache, keys \ {k}, e)

EntriesOfFiles(cache) ==
    UNION {{cache[k].entries[i] : i \in 1..Len(cache[k].entries)} : k \in DOMAIN cache}

Range(seq) == {seq[i] : i \in 1..Len(seq)}

(* C1: a call that finds the page cache non-empty, however partial, issues *)
(* no request and leaves the page cache as it was; a request is issued     *)
(* only by a call that found the page cache empty.                         *)
C1_CacheHitNoNetwork ==
    /\ ~WasCold => (Gets = <<>> /\ xmlCache = cacheAtStart)
    /\ Gets # <<>> => WasCold

(* get_leaderboard_xml() returned on a partial, non-empty page cache. *)
C1_Witness ==
    /\ entry = "get_leaderboard_xml"
    /\ pc = "idle"
    /\ result = "ok"
    /\ ~WasCold
    /\ Cardinality(DOMAIN cacheAtStart) < Len(server)

FetchFailed ==
    \/ \E i \in 1..Len(log) : log[i].op = "get" /\ log[i].outcome # "ok"
    \/ result = "ParseError"

CleanChain ==
    /\ result # "none"
    /\ WasCold
    /\ ~dfAtStart.exists
    /\ server[Len(server)].nextRequestURL.kind = "absent"
    /\ ~FetchFailed

(* C2: from a cold cache, on a chain of n pages whose last page has no     *)
(* next locator and with no fetch failing, the download issues the         *)
(* requests for pages 1..n in order, writes each page before the next      *)
(* request, and ends after exactly n requests.                             *)
C2_TerminatesAfterNFetches ==
    CleanChain =>
        /\ IsPrefix(NetLog, ExpectedNetLog(Len(server)))
        /\ pc # "download" => NetLog = ExpectedNetLog(Len(server))
        /\ Len(Gets) = Len(server) /\ Len(NetLog) = 2 * Len(server) => pc # "download"

(* A download of a chain of MaxPages pages has ended. *)
C2_Witness ==
    /\ CleanChain
    /\ pc # "download"
    /\ Len(server) = MaxPages
    /\ Len(Gets) = MaxPages

(* C3: from a cold cache, a request for page k that fails (an exception or *)
(* a non-success status) ends the call with an error, is the last thing    *)
(* the call does, and leaves exactly the pages 1..k-1 in the cache.        *)
C3_FetchFailureAborts ==
    WasCold =>
        \A i \in 1..Len(log) :
            (log[i].op = "get" /\ log[i].page >= 1
                /\ log[i].outcome \in {"exception", "bad_status"}) =>
                /\ i = Len(log)
                /\ pc = "idle"
                /\ result \notin {"none", "running", "ok"}
                /\ xmlCache = PagesUpTo(log[i].page - 1)

(* C4: get_leaderboard_df() with df.pkl present returns the cached frame,  *)
(* issues no request, neither lists nor reads the page cache, and leaves   *)
(* both caches as they were.                                               *)
C4_DatasetCacheHit ==
    (entry = "get_leaderboard_df" /\ dfAtStart.exists) =>
        /\ pc = "idle"
        /\ result = "ok"
        /\ returned = dfAtStart.data
        /\ log = <<>>
        /\ xmlCache = cacheAtStart
        /\ dfCache = dfAtStart

(* get_leaderboard_df() hit df.pkl while the page cache was partial. *)
C4_Witness ==
    /\ entry = "get_leaderboard_df"
    /\ dfAtStart.exists
    /\ result = "ok"
    /\ Cardinality(DOMAIN xmlCache) < Len(server)

(* C5: get_leaderboard_df() without df.pkl returns a frame holding every   *)
(* entry of every cached page exactly as often as the pages hold it,       *)
(* whatever the order of the listing, and saves that frame to df.pkl.      *)
C5_AssemblyMultiset ==
    (entry = "get_leaderboard_df" /\ ~dfAtStart.exists /\ pc = "idle" /\ result = "ok") =>
        /\ \A e \in EntriesOfFiles(xmlCache) \cup Range(returned) :
              Count(returned, e) = CountInFiles(xmlCache, DOMAIN xmlCache, e)
        /\ dfCache = [exists |-> TRUE, data |-> returned]

(* A frame was assembled from several pages listed out of rank order. *)
C5_Witness ==
    /\ entry = "get_leaderboard_df"
    /\ ~dfAtStart.exists
    /\ pc = "idle"
    /\ result = "ok"
    /\ Cardinality(DOMAIN xmlCache) >= 2
    /\ \E i \in 1..(Len(returned) - 1) : returned[i].rank > returned[i + 1].rank

DownloadErrors == {"ConnectionError", "ParseError", "AttributeError", "MissingSchema"}

HoldsEveryPage(df) ==
    \A k \in 1..Len(server) : Range(server[k].entries) \subseteq Range(df)

(* C9: a call whose download fails writes no df.pkl and returns no frame,  *)
(* and a frame that is returned or held in df.pkl holds the entries of     *)
(* every page of the server's chain.                                       *)
C9_NoPartialDataset ==
    /\ result \in DownloadErrors => (dfCache = dfAtStart /\ returned = <<>>)
    /\ dfCache.exists => HoldsEveryPage(dfCache.data)
    /\ (entry = "get_leaderboard_df" /\ result = "ok") => HoldsEveryPage(returned)

(* C10: after a page is cached, the next locator is the page's reference   *)
(* when the page carries a non-empty one; when the element is absent, or   *)
(* present but empty, the download returns normally without another        *)
(* request.                                                                *)
C10_AbsentOrEmptyNextStops ==
    (Len(log) > 0 /\ log[Len(log)].op = "write") =>
        LET f == server[log[Len(log)].page].nextRequestURL IN
        IF f.kind = "url"
        THEN pc = "download" /\ next_url = PageUrl(f.page)
        ELSE pc # "download" /\ next_url = NoneUrl /\ result \in {"ok", "running"}

(***************************************************************************)
(* Properties of the bin computation (BinSpec).                            *)
(***************************************************************************)
StrictlyIncreasing(edges) == \A j \in 1..(Len(edges) - 1) : FLt(edges[j], edges[j + 1])

BinsHolding(edges, v) ==
    {j \in 1..(Len(edges) - 1) : FLeq(edges[j], Num(v)) /\ FLt(Num(v), edges[j + 1])}

Covers(out) ==
    /\ out.raised = "none"
    /\ StrictlyIncreasing(out.bin_edges)
    /\ \A i \in 1..Len(combined_df) :
          Cardinality(BinsHolding(out.bin_edges, combined_df[i])) = 1
    /\ \A i \in 1..Len(combined_df) :
          (\A k \in 1..Len(combined_df) : combined_df[k] <= combined_df[i]) =>
              BinsHolding(out.bin_edges, combined_df[i]) = {Len(out.bin_edges) - 1}
    /\ Len(out.rank_counts) = Len(out.bin_edges) - 1
    /\ SeqSum(out.rank_counts) = Len(combined_df)

(* C6: for every non-empty frame of non-negative scores, the edges (the    *)
(* program's lower bounds and max(score)+1) are strictly increasing, every *)
(* score lies in exactly one interval [lower, upper), the maximum lies in  *)
(* the top one, and the counts add up to the number of entries.            *)
C6_EveryScoreInOneBin ==
    /\ (plotOut.applied /\ Len(combined_df) > 0) => Covers(plotOut)
    /\ (lineOut.applied /\ Len(combined_df) > 0) => Covers(lineOut)

AllZero(out, withCumulative) ==
    /\ out.raised = "none"
    /\ Len(out.rank_counts) = Len(out.bin_edges) - 1
    /\ Len(out.percentage) = Len(out.rank_counts)
    /\ \A j \in 1..Len(out.rank_counts) :
          /\ out.rank_counts[j] = 0
          /\ FEq(out.percentage[j], Num(0))
    /\ withCumulative =>
          /\ Len(out.cumulative_top_percentage) = Len(out.rank_counts)
          /\ \A j \in 1..Len(out.cumulative_top_percentage) :
                FEq(out.cumulative_top_percentage[j], Num(0))

(* C7: on the empty frame the bin computation raises nothing and gives     *)
(* count 0, percentage 0 and cumulative top percentage 0 for every bin.    *)
C7_EmptyFrameAllZero ==
    /\ (plotOut.applied /\ Len(combined_df) = 0) => AllZero(plotOut, FALSE)
    /\ (lineOut.applied /\ Len(combined_df) = 0) => AllZero(lineOut, TRUE)

RECURSIVE FSum(_)
FSum(s) == IF s = <<>> THEN Num(0) ELSE FAdd(Head(s), FSum(Tail(s)))

(* The percentage of a bin as the histogram computes it (line 133). *)
BinPercentage(out, j) == PlotPercentage(out.rank_counts[j], out.total_players)

(* C8: wherever rivals2_line_plot computes the cumulative top percentages, *)
(* that of bin j is the sum of the percentages of the bins j and above: it *)
(* does not increase with j, is 100 for the lowest bin of a non-empty      *)
(* frame, and is the top bin's own percentage for the top bin.             *)
C8_CumulativeTopIsSuffixSum ==
    (lineOut.applied /\ Len(lineOut.cumulative_top_percentage) > 0) =>
        LET cum == lineOut.cumulative_top_percentage
            n == Len(cum)
        IN  /\ \A j \in 1..n :
                  FEq(cum[j], FSum([k \in 1..(n - j + 1) |->
                                       BinPercentage(lineOut, j + k - 1)]))
            /\ \A j \in 1..(n - 1) : FLeq(cum[j + 1], cum[j])
            /\ Len(combined_df) > 0 => FEq(cum[1], Num(100))
            /\ FEq(cum[n], BinPercentage(lineOut, n))
====
